---- MODULE Spec2Model ----
(***************************************************************************)
(* The DFU ownership lock of nRF Desktop (dfu_lock.c) at statement         *)
(* granularity.  Every execution context drives one owner identity and     *)
(* calls dfu_lock_try, dfu_lock_release, dfu_lock_owner_check and          *)
(* dfu_lock_owner_check_and_try.  Spec interleaves the contexts freely,    *)
(* SpecSeq lets each call run to completion before the next one starts.    *)
(***************************************************************************)
EXTENDS Integers, FiniteSets, Sequences, TLC

\* Number of owner identities (struct dfu_lock_owner objects), one context each.
NumOwners == 3

\* The NULL pointer.
NULL == 0

\* Addresses of the registered struct dfu_lock_owner objects.
Owners == 1..NumOwners

\* The identity of the MCUmgr module: static struct dfu_lock_owner mcumgr_owner.
mcumgr_owner == 1

\* The system workqueue, which runs dfu_timeout_handler.
Workqueue == NumOwners + 1

\* One execution context per identity, and the system workqueue.
Contexts == Owners \cup {Workqueue}

\* owner->owner_changed is optional: every third identity leaves it NULL.
owner_changed(o) == o % 3 # 0

VARIABLES
    dfu_lock,        \* static atomic_t dfu_lock
    current_owner,   \* static const struct dfu_lock_owner *current_owner
    previous_owner,  \* static const struct dfu_lock_owner *previous_owner
    pc,              \* pc[c]: the statement context c executes next
    op,              \* op[c]: the API function context c called
    arg,             \* arg[c]: the owner argument of that call
    ret,             \* ret[c]: the value the call returned
    pre,             \* lock state when the most recent call was entered
    cb_cnt,          \* owner_changed invocations during the most recent call
    cb_from,         \* identity whose owner_changed was invoked last
    cb_arg,          \* new_owner argument passed to it
    rel_assert,      \* the most recent call reached the assertion of release
    failed,          \* assertions that have failed so far
    acquired,        \* acquired[o]: o got true from try/check_and_try, no release since
    blocker,         \* current_owner as read by the failure log of check_and_try
    prev_call,       \* the call completed before the most recent one
    steps,           \* steps[c]: statements context c has executed in its call
    last_released,   \* the identity whose release freed the lock last
    serial,          \* TRUE: the callers are serialised, calls never overlap
    registered,      \* the management callbacks have been registered
    mpc,             \* the statement the running management callback is at
    mcb,             \* which management callback is running
    mret,            \* the value the management callback returns
    dfu_timeout,     \* static struct k_work_delayable dfu_timeout
    mcumgr_event_active, \* static atomic_t mcumgr_event_active
    event_queue,     \* ble_smp_transfer_event submitted and not yet delivered
    events_stopped,  \* the host sends no further management requests
    mpre,            \* state when the running management callback was entered
    resched,         \* k_work_reschedule calls of the running management callback
    conn_cnt,        \* conn_cnt[u]: static uint8_t conn_cnt_use_case_a / _b
    adv_active,      \* adv_active[u]: the advertising set of use case u is advertising
    restart_work,    \* restart_work[u]: adv_use_case_a/b_restart_work is pending
    links,           \* links[u]: connections of use case u the stack holds
    conn_events,     \* connection events the stack has not yet reported
    bt_pc,           \* bt_pc[t]: where thread t is in bt_adv_set_use_case_x_start
    bt_uc,           \* bt_uc[t]: the use case of that call
    bt_caller,       \* bt_caller[t]: the function that made that call
    started_cnt,     \* conn_cnt[u] at the latest bt_le_ext_adv_start for u
    started_by,      \* the caller behind the latest bt_le_ext_adv_start for u
    last_start,      \* result of bt_le_ext_adv_start since the latest disconnect
    bt_init          \* progress of init_work_handle

vars == <<dfu_lock, current_owner, previous_owner, pc, op, arg, ret, pre,
          cb_cnt, cb_from, cb_arg, rel_assert, failed, acquired, blocker,
          prev_call, steps, last_released, serial, registered, mpc, mcb,
          mret, dfu_timeout, mcumgr_event_active, event_queue, events_stopped,
          mpre, resched, conn_cnt, adv_active, restart_work, links,
          conn_events, bt_pc, bt_uc, bt_caller, started_cnt, started_by,
          last_start, bt_init>>

\* The state of the Bluetooth multiple use case sample.
btvars == <<conn_cnt, adv_active, restart_work, links, conn_events, bt_pc,
            bt_uc, bt_caller, started_cnt, started_by, last_start, bt_init>>

\* Identifiers of the Bluetooth identities of use case A and B.
BT_ID_USE_CASE_A == 1
BT_ID_USE_CASE_B == 2
UseCases == {BT_ID_USE_CASE_A, BT_ID_USE_CASE_B}

\* Bluetooth connection limit of use case A and B.
BT_MAX_CONN_USE_CASE_A == 1
BT_MAX_CONN_USE_CASE_B == 1
BT_MAX_CONN(u) ==
    IF u = BT_ID_USE_CASE_A THEN BT_MAX_CONN_USE_CASE_A ELSE BT_MAX_CONN_USE_CASE_B

\* The threads of the sample: the Bluetooth stack's callback thread and the
\* system workqueue.
BtRx == "bt_rx"
SysWorkq == "sysworkq"
BtThreads == {BtRx, SysWorkq}

\* Connection events the stack may hold before it reports them.
MaxPending == 3

\* No bt_le_ext_adv_start call so far.
NoStart == -1

\* The state of the MCUmgr module.
mgmtvars == <<registered, mpc, mcb, mret, dfu_timeout, mcumgr_event_active,
              event_queue, events_stopped, mpre, resched>>

lockvars == <<dfu_lock, current_owner, previous_owner>>

ghostvars == <<failed, acquired, blocker, last_released>>

\* What an observer of non-overlapping calls records about them.
histvars == <<pre, cb_cnt, cb_from, cb_arg, rel_assert, prev_call>>

\* The three fields of the lock as one value.
LockState == [lock |-> dfu_lock, cur |-> current_owner, prev |-> previous_owner]

\* What a management callback can change besides its return value.
MgmtState ==
    [lock |-> LockState, timeout |-> dfu_timeout,
     active |-> mcumgr_event_active, queue |-> event_queue]

NoCall == [op |-> "none", arg |-> NULL, ret |-> "none", owner |-> FALSE]

InitLock ==
    /\ dfu_lock = FALSE
    /\ current_owner = NULL
    /\ previous_owner = NULL
    /\ pc = [c \in Contexts |-> "idle"]
    /\ op = [c \in Contexts |-> "none"]
    /\ arg = [c \in Contexts |-> NULL]
    /\ ret = [c \in Contexts |-> "none"]
    /\ pre = LockState
    /\ cb_cnt = 0
    /\ cb_from = NULL
    /\ cb_arg = NULL
    /\ rel_assert = FALSE
    /\ failed = {}
    /\ acquired = [o \in Owners |-> FALSE]
    /\ blocker = [c \in Contexts |-> NULL]
    /\ prev_call = NoCall
    /\ steps = [c \in Contexts |-> 0]
    /\ last_released = NULL
    /\ registered = FALSE
    /\ mpc = "idle"
    /\ mcb = "none"
    /\ mret = "none"
    /\ dfu_timeout = "idle"
    /\ mcumgr_event_active = FALSE
    /\ event_queue = 0
    /\ events_stopped = FALSE
    /\ mpre = MgmtState
    /\ resched = 0
    /\ conn_cnt = [u \in UseCases |-> 0]
    /\ adv_active = [u \in UseCases |-> FALSE]
    /\ restart_work = [u \in UseCases |-> FALSE]
    /\ links = [u \in UseCases |-> 0]
    /\ conn_events = <<>>
    /\ bt_pc = [t \in BtThreads |-> "idle"]
    /\ bt_uc = [t \in BtThreads |-> BT_ID_USE_CASE_A]
    /\ bt_caller = [t \in BtThreads |-> "none"]
    /\ started_cnt = [u \in UseCases |-> NoStart]
    /\ started_by = [u \in UseCases |-> "none"]
    /\ last_start = [u \in UseCases |-> "none"]
    /\ bt_init = "boot"

\* The callers run in contexts that preempt each other.
Init == InitLock /\ serial = FALSE

\* The callers run one call at a time.
InitSeq == InitLock /\ serial = TRUE

\* No other context is inside a call.
Sequential(c) == \A d \in Contexts \ {c} : pc[d] = "idle"

\* The record an observer keeps of the call context c is executing: the lock
\* state at entry, the callbacks invoked, whether the assertion of release was
\* reached, and the call that completed before.
Observe(c) ==
    /\ pre' = IF pc[c] = "idle" THEN LockState ELSE pre
    /\ cb_cnt' = IF pc[c] = "idle" THEN 0
                 ELSE IF pc[c] = "try_call_cb" THEN cb_cnt + 1 ELSE cb_cnt
    /\ cb_from' = IF pc[c] = "idle" THEN NULL
                  ELSE IF pc[c] = "try_call_cb" THEN previous_owner ELSE cb_from
    /\ cb_arg' = IF pc[c] = "idle" THEN NULL
                 ELSE IF pc[c] = "try_call_cb" THEN arg[c] ELSE cb_arg
    /\ rel_assert' = IF pc[c] = "idle" THEN FALSE
                     ELSE IF pc[c] = "rel_cas" THEN TRUE ELSE rel_assert
    /\ prev_call' = IF pc[c] = "done"
                    THEN [op |-> op[c], arg |-> arg[c], ret |-> ret[c],
                          owner |-> (pre.cur = arg[c])]
                    ELSE prev_call

\* Calls are observed where they cannot overlap.
HistLock(c) ==
    /\ IF serial THEN Observe(c) ELSE UNCHANGED histvars
    /\ steps' = [steps EXCEPT ![c] = IF pc[c] = "done" THEN 0 ELSE steps[c] + 1]
    /\ UNCHANGED <<serial, btvars>>

\* A statement of the lock leaves the MCUmgr module alone.
Hist(c) == HistLock(c) /\ UNCHANGED mgmtvars

\* The statements of the four API functions.
Labels ==
    {"try_cas", "try_assert", "try_set", "try_notify", "try_call_cb", "in_cb",
     "rel_check", "rel_prev", "rel_clear", "rel_cas", "chk", "cat_check",
     "cat_log"}

\* Context c enters API function f with argument o; its first statement is at first.
EnterLock(c, o, f, first) ==
    /\ pc[c] = "idle"
    /\ serial => Sequential(c)
    /\ HistLock(c)
    /\ pc' = [pc EXCEPT ![c] = first]
    /\ op' = [op EXCEPT ![c] = f]
    /\ arg' = [arg EXCEPT ![c] = o]
    /\ ret' = [ret EXCEPT ![c] = "none"]
    /\ blocker' = [blocker EXCEPT ![c] = NULL]
    /\ UNCHANGED <<lockvars, failed, acquired, last_released>>

\* A caller outside the MCUmgr module enters an API function.
Enter(c, o, f, first) == EnterLock(c, o, f, first) /\ UNCHANGED mgmtvars

\* The call of context c returns v to its caller.
Leave(c, v) ==
    /\ pc' = [pc EXCEPT ![c] = "done"]
    /\ ret' = [ret EXCEPT ![c] = v]
    /\ acquired' = IF v = "true" /\ op[c] \in {"try", "check_and_try"}
                   THEN [acquired EXCEPT ![arg[c]] = TRUE]
                   ELSE acquired

\* dfu_lock_try returns v: to the caller, or into dfu_lock_owner_check_and_try.
TryReturn(c, v) ==
    IF op[c] = "check_and_try" /\ v = "false"
    THEN /\ pc' = [pc EXCEPT ![c] = "cat_log"]
         /\ UNCHANGED <<ret, acquired>>
    ELSE Leave(c, v)

(***************************************************************************)
(* bool dfu_lock_try(const struct dfu_lock_owner *new_owner)               *)
(***************************************************************************)
dfu_lock_try(c, o) == Enter(c, o, "try", "try_cas")

\* Mutant of try_cas: the result of the compare-and-swap is not checked.
try_cas_unchecked(c) ==
    /\ pc[c] = "try_cas"
    /\ Hist(c)
    /\ dfu_lock' = TRUE
    /\ pc' = [pc EXCEPT ![c] = "try_assert"]
    /\ UNCHANGED <<current_owner, previous_owner, op, arg, ret, ghostvars>>

\* Mutant of try_cas: the compare-and-swap is retried until the lock is free.
try_cas_retry(c) ==
    /\ pc[c] = "try_cas"
    /\ Hist(c)
    /\ IF dfu_lock = FALSE
       THEN /\ dfu_lock' = TRUE
            /\ pc' = [pc EXCEPT ![c] = "try_assert"]
       ELSE UNCHANGED <<dfu_lock, pc>>
    /\ UNCHANGED <<current_owner, previous_owner, op, arg, ret, ghostvars>>

\* __ASSERT_NO_MSG(new_owner != NULL); atomic_cas(&dfu_lock, false, true);
\* if (!is_ownership_changed) return false;
try_cas(c) ==
    /\ pc[c] = "try_cas"
    /\ Hist(c)
    /\ failed' = IF arg[c] = NULL THEN failed \cup {"try_arg"} ELSE failed
    /\ IF dfu_lock = FALSE
       THEN /\ dfu_lock' = TRUE
            /\ pc' = [pc EXCEPT ![c] = "try_assert"]
            /\ UNCHANGED <<ret, acquired>>
       ELSE /\ UNCHANGED dfu_lock
            /\ TryReturn(c, "false")
    /\ UNCHANGED <<current_owner, previous_owner, op, arg, blocker, last_released>>

\* __ASSERT_NO_MSG(current_owner == NULL);
try_assert(c) ==
    /\ pc[c] = "try_assert"
    /\ Hist(c)
    /\ failed' = IF current_owner # NULL THEN failed \cup {"try_owner"} ELSE failed
    /\ pc' = [pc EXCEPT ![c] = "try_set"]
    /\ UNCHANGED <<lockvars, op, arg, ret, acquired, blocker, last_released>>

\* Mutant of try_set: the previous owner is installed instead of the new one.
try_set_previous(c) ==
    /\ pc[c] = "try_set"
    /\ Hist(c)
    /\ current_owner' = previous_owner
    /\ pc' = [pc EXCEPT ![c] = "try_notify"]
    /\ UNCHANGED <<dfu_lock, previous_owner, op, arg, ret, ghostvars>>

\* Mutant of try_set: the acquisition also records the new owner as previous.
try_set_records(c) ==
    /\ pc[c] = "try_set"
    /\ Hist(c)
    /\ current_owner' = arg[c]
    /\ previous_owner' = arg[c]
    /\ pc' = [pc EXCEPT ![c] = "try_notify"]
    /\ UNCHANGED <<dfu_lock, op, arg, ret, ghostvars>>

\* current_owner = new_owner;
try_set(c) ==
    /\ pc[c] = "try_set"
    /\ Hist(c)
    /\ current_owner' = arg[c]
    /\ pc' = [pc EXCEPT ![c] = "try_notify"]
    /\ UNCHANGED <<dfu_lock, previous_owner, op, arg, ret, ghostvars>>

\* Mutant of try_notify: the new owner is not compared with the previous one.
try_notify_always(c) ==
    /\ pc[c] = "try_notify"
    /\ Hist(c)
    /\ IF previous_owner # NULL /\ owner_changed(previous_owner)
       THEN /\ pc' = [pc EXCEPT ![c] = "try_call_cb"]
            /\ UNCHANGED <<ret, acquired>>
       ELSE TryReturn(c, "true")
    /\ UNCHANGED <<lockvars, op, arg, failed, blocker, last_released>>

\* if (previous_owner && previous_owner->owner_changed)
\*     if (previous_owner != current_owner) ...  else return true;
try_notify(c) ==
    /\ pc[c] = "try_notify"
    /\ Hist(c)
    /\ IF /\ previous_owner # NULL
          /\ owner_changed(previous_owner)
          /\ previous_owner # current_owner
       THEN /\ pc' = [pc EXCEPT ![c] = "try_call_cb"]
            /\ UNCHANGED <<ret, acquired>>
       ELSE TryReturn(c, "true")
    /\ UNCHANGED <<lockvars, op, arg, failed, blocker, last_released>>

\* Mutant of try_call_cb: the callback is deferred, true is handed to the
\* caller while the callback has yet to finish.
try_call_cb_deferred(c) ==
    /\ pc[c] = "try_call_cb"
    /\ Hist(c)
    /\ pc' = [pc EXCEPT ![c] = "in_cb"]
    /\ ret' = [ret EXCEPT ![c] = "true"]
    /\ UNCHANGED <<lockvars, op, arg, ghostvars>>

\* previous_owner->owner_changed(new_owner); the callback starts to run.
try_call_cb(c) ==
    /\ pc[c] = "try_call_cb"
    /\ Hist(c)
    /\ pc' = [pc EXCEPT ![c] = "in_cb"]
    /\ UNCHANGED <<lockvars, op, arg, ret, ghostvars>>

\* The callback returns into dfu_lock_try, which returns true.
cb_return(c) ==
    /\ pc[c] = "in_cb"
    /\ Hist(c)
    /\ TryReturn(c, "true")
    /\ UNCHANGED <<lockvars, op, arg, failed, blocker, last_released>>

(***************************************************************************)
(* void dfu_lock_release(const struct dfu_lock_owner *owner)               *)
(***************************************************************************)
dfu_lock_release(c, o) == Enter(c, o, "release", "rel_check")

\* Mutant of rel_check: the caller is not compared with the current owner.
rel_check_skip(c) ==
    /\ pc[c] = "rel_check"
    /\ Hist(c)
    /\ pc' = [pc EXCEPT ![c] = "rel_prev"]
    /\ UNCHANGED <<lockvars, op, arg, ret, ghostvars>>

\* if (current_owner != owner) return;
rel_check(c) ==
    /\ pc[c] = "rel_check"
    /\ Hist(c)
    /\ IF current_owner # arg[c]
       THEN Leave(c, "void")
       ELSE /\ pc' = [pc EXCEPT ![c] = "rel_prev"]
            /\ UNCHANGED <<ret, acquired>>
    /\ UNCHANGED <<lockvars, op, arg, failed, blocker, last_released>>

\* Mutant of rel_prev: the releasing owner is not recorded.
rel_prev_skip(c) ==
    /\ pc[c] = "rel_prev"
    /\ Hist(c)
    /\ pc' = [pc EXCEPT ![c] = "rel_clear"]
    /\ UNCHANGED <<lockvars, op, arg, ret, ghostvars>>

\* previous_owner = current_owner;
rel_prev(c) ==
    /\ pc[c] = "rel_prev"
    /\ Hist(c)
    /\ previous_owner' = current_owner
    /\ pc' = [pc EXCEPT ![c] = "rel_clear"]
    /\ UNCHANGED <<dfu_lock, current_owner, op, arg, ret, ghostvars>>

\* Mutant of rel_clear: current_owner is left in place.
rel_clear_skip(c) ==
    /\ pc[c] = "rel_clear"
    /\ Hist(c)
    /\ pc' = [pc EXCEPT ![c] = "rel_cas"]
    /\ UNCHANGED <<lockvars, op, arg, ret, ghostvars>>

\* current_owner = NULL;
rel_clear(c) ==
    /\ pc[c] = "rel_clear"
    /\ Hist(c)
    /\ current_owner' = NULL
    /\ pc' = [pc EXCEPT ![c] = "rel_cas"]
    /\ UNCHANGED <<dfu_lock, previous_owner, op, arg, ret, ghostvars>>

\* is_ownership_released = atomic_cas(&dfu_lock, true, false);
\* __ASSERT_NO_MSG(is_ownership_released); return;
rel_cas(c) ==
    /\ pc[c] = "rel_cas"
    /\ Hist(c)
    /\ dfu_lock' = FALSE
    /\ failed' = IF dfu_lock # TRUE THEN failed \cup {"release_cas"} ELSE failed
    /\ pc' = [pc EXCEPT ![c] = "done"]
    /\ ret' = [ret EXCEPT ![c] = "void"]
    /\ acquired' = [acquired EXCEPT ![arg[c]] = FALSE]
    /\ last_released' = arg[c]
    /\ UNCHANGED <<current_owner, previous_owner, op, arg, blocker>>

(***************************************************************************)
(* bool dfu_lock_owner_check(const struct dfu_lock_owner *owner)           *)
(***************************************************************************)
dfu_lock_owner_check(c, o) == Enter(c, o, "check", "chk")

\* Mutant of chk: the argument is compared with previous_owner.
chk_previous(c) ==
    /\ pc[c] = "chk"
    /\ Hist(c)
    /\ Leave(c, IF arg[c] = previous_owner THEN "true" ELSE "false")
    /\ UNCHANGED <<lockvars, op, arg, failed, blocker, last_released>>

\* return (owner == current_owner);
chk(c) ==
    /\ pc[c] = "chk"
    /\ Hist(c)
    /\ Leave(c, IF arg[c] = current_owner THEN "true" ELSE "false")
    /\ UNCHANGED <<lockvars, op, arg, failed, blocker, last_released>>

(***************************************************************************)
(* bool dfu_lock_owner_check_and_try(const struct dfu_lock_owner *owner)   *)
(***************************************************************************)
dfu_lock_owner_check_and_try(c, o) == Enter(c, o, "check_and_try", "cat_check")

\* Mutant of cat_check: the incumbent is not recognised, dfu_lock_try always runs.
cat_check_skip(c) ==
    /\ pc[c] = "cat_check"
    /\ Hist(c)
    /\ pc' = [pc EXCEPT ![c] = "try_cas"]
    /\ UNCHANGED <<lockvars, op, arg, ret, ghostvars>>

\* if (dfu_lock_owner_check(owner)) return true;
\* is_ownership_changed = dfu_lock_try(owner);
cat_check(c) ==
    /\ pc[c] = "cat_check"
    /\ Hist(c)
    /\ IF arg[c] = current_owner
       THEN Leave(c, "true")
       ELSE /\ pc' = [pc EXCEPT ![c] = "try_cas"]
            /\ UNCHANGED <<ret, acquired>>
    /\ UNCHANGED <<lockvars, op, arg, failed, blocker, last_released>>

\* LOG_WRN("...", owner->name, current_owner->name); return false;
cat_log(c) ==
    /\ pc[c] = "cat_log"
    /\ Hist(c)
    /\ blocker' = [blocker EXCEPT ![c] = current_owner]
    /\ Leave(c, "false")
    /\ UNCHANGED <<lockvars, op, arg, failed, last_released>>

\* The caller has consumed the result of its call and may issue the next one.
Return(c) ==
    /\ pc[c] = "done"
    /\ Hist(c)
    /\ pc' = [pc EXCEPT ![c] = "idle"]
    /\ op' = [op EXCEPT ![c] = "none"]
    /\ arg' = [arg EXCEPT ![c] = NULL]
    /\ ret' = [ret EXCEPT ![c] = "none"]
    /\ blocker' = [blocker EXCEPT ![c] = NULL]
    /\ UNCHANGED <<lockvars, failed, acquired, last_released>>

\* One step of context c; every context passes its own identity.
Step(c) ==
    \/ dfu_lock_try(c, c)
    \/ try_cas(c)
    \/ try_assert(c)
    \/ try_set(c)
    \/ try_notify(c)
    \/ try_call_cb(c)
    \/ cb_return(c)
    \/ dfu_lock_release(c, c)
    \/ rel_check(c)
    \/ rel_prev(c)
    \/ rel_clear(c)
    \/ rel_cas(c)
    \/ dfu_lock_owner_check(c, c)
    \/ chk(c)
    \/ dfu_lock_owner_check_and_try(c, c)
    \/ cat_check(c)
    \/ cat_log(c)
    \/ Return(c)

\* The contexts of the identities take steps one at a time.
Next == \E c \in Owners : Step(c)

\* Contexts interleave at statement granularity.
Spec == Init /\ [][Next]_vars

\* Each call runs to completion before the next one starts.
SpecSeq == InitSeq /\ [][Next]_vars

(***************************************************************************)
(* The MCUmgr module: dfu_mcumgr.c                                         *)
(***************************************************************************)

\* What the lock and its callers hold, untouched by the module's own statements.
corevars == <<lockvars, pc, op, arg, ret, histvars, steps, ghostvars, serial,
              btvars>>

\* app_event_handler, module_state_event of main READY:
\* k_work_init_delayable(&dfu_timeout, ...); mgmt_callback_register(...) twice.
module_ready ==
    /\ ~registered
    /\ registered' = TRUE
    /\ dfu_timeout' = "idle"
    /\ UNCHANGED <<corevars, mpc, mcb, mret, mcumgr_event_active, event_queue,
                   events_stopped, mpre, resched>>

\* MCUmgr invokes management callback cb in context c, which starts with
\* dfu_lock_owner_check_and_try(&mcumgr_owner) (CONFIG_DESKTOP_DFU_LOCK set).
MgmtEnter(c, cb) ==
    /\ registered
    /\ ~events_stopped
    /\ mpc = "idle"
    /\ EnterLock(c, mcumgr_owner, "check_and_try", "cat_check")
    /\ mpc' = "lock"
    /\ mcb' = cb
    /\ mret' = "none"
    /\ mpre' = IF serial THEN MgmtState ELSE mpre
    /\ resched' = 0
    /\ UNCHANGED <<registered, dfu_timeout, mcumgr_event_active, event_queue,
                   events_stopped>>

\* static int32_t mcumgr_img_mgmt_cb(...)
mcumgr_img_mgmt_cb(c) == MgmtEnter(c, "img")

\* static int32_t mcumgr_os_mgmt_reset_cb(...)
mcumgr_os_mgmt_reset_cb(c) == MgmtEnter(c, "os")

\* Mutant of mgmt_locked: the result of check_and_try is ignored.
mgmt_locked_ignore(c) ==
    /\ mpc = "lock"
    /\ pc[c] = "done"
    /\ mpc' = "resched"
    /\ UNCHANGED <<corevars, registered, mcb, mret, dfu_timeout,
                   mcumgr_event_active, event_queue, events_stopped, mpre, resched>>

\* if (!dfu_lock_owner_check_and_try(&mcumgr_owner)) return MGMT_ERR_EACCESSDENIED;
mgmt_locked(c) ==
    /\ mpc = "lock"
    /\ pc[c] = "done"
    /\ IF ret[c] = "true"
       THEN mpc' = "resched" /\ UNCHANGED mret
       ELSE mpc' = "ret" /\ mret' = "EACCESSDENIED"
    /\ UNCHANGED <<corevars, registered, mcb, dfu_timeout, mcumgr_event_active,
                   event_queue, events_stopped, mpre, resched>>

\* Mutant of mgmt_reschedule: the timeout work is not scheduled.
mgmt_reschedule_skip(c) ==
    /\ mpc = "resched"
    /\ IF mcb = "img"
       THEN mpc' = "img_cas" /\ UNCHANGED mret
       ELSE mpc' = "ret" /\ mret' = "EOK"
    /\ UNCHANGED <<corevars, registered, mcb, dfu_timeout, mcumgr_event_active,
                   event_queue, events_stopped, mpre, resched>>

\* k_work_reschedule(&dfu_timeout, DFU_TIMEOUT);
\* mcumgr_os_mgmt_reset_cb then returns MGMT_ERR_EOK.
mgmt_reschedule(c) ==
    /\ mpc = "resched"
    /\ dfu_timeout' = "scheduled"
    /\ resched' = resched + 1
    /\ IF mcb = "img"
       THEN mpc' = "img_cas" /\ UNCHANGED mret
       ELSE mpc' = "ret" /\ mret' = "EOK"
    /\ UNCHANGED <<corevars, registered, mcb, mcumgr_event_active, event_queue,
                   events_stopped, mpre>>

\* Mutant of img_cas: the event is submitted whatever the flag says.
img_cas_unconditional(c) ==
    /\ mpc = "img_cas"
    /\ mcumgr_event_active' = TRUE
    /\ mpc' = "img_submit"
    /\ UNCHANGED <<corevars, registered, mcb, mret, dfu_timeout, event_queue,
                   events_stopped, mpre, resched>>

\* if (atomic_cas(&mcumgr_event_active, false, true)) ... else return MGMT_ERR_EOK;
img_cas(c) ==
    /\ mpc = "img_cas"
    /\ IF mcumgr_event_active = FALSE
       THEN /\ mcumgr_event_active' = TRUE
            /\ mpc' = "img_submit"
            /\ UNCHANGED mret
       ELSE /\ UNCHANGED mcumgr_event_active
            /\ mpc' = "ret"
            /\ mret' = "EOK"
    /\ UNCHANGED <<corevars, registered, mcb, dfu_timeout, event_queue,
                   events_stopped, mpre, resched>>

\* APP_EVENT_SUBMIT(new_ble_smp_transfer_event()); return MGMT_ERR_EOK;
img_submit(c) ==
    /\ mpc = "img_submit"
    /\ event_queue' = event_queue + 1
    /\ mpc' = "ret"
    /\ mret' = "EOK"
    /\ UNCHANGED <<corevars, registered, mcb, dfu_timeout, mcumgr_event_active,
                   events_stopped, mpre, resched>>

\* The management callback hands its return value to MCUmgr.
mgmt_return(c) ==
    /\ mpc = "ret"
    /\ mpc' = "idle"
    /\ mcb' = "none"
    /\ mret' = "none"
    /\ pc' = [pc EXCEPT ![c] = "idle"]
    /\ op' = [op EXCEPT ![c] = "none"]
    /\ arg' = [arg EXCEPT ![c] = NULL]
    /\ ret' = [ret EXCEPT ![c] = "none"]
    /\ blocker' = [blocker EXCEPT ![c] = NULL]
    /\ steps' = [steps EXCEPT ![c] = 0]
    /\ UNCHANGED <<lockvars, histvars, failed, acquired, last_released, serial,
                   registered, dfu_timeout, mcumgr_event_active, event_queue,
                   events_stopped, mpre, resched, btvars>>

\* The delay of dfu_timeout expires and the workqueue w runs
\* dfu_timeout_handler, which calls dfu_lock_release(&mcumgr_owner).
dfu_timeout_handler(w) ==
    /\ dfu_timeout = "scheduled"
    /\ dfu_timeout' = "idle"
    /\ EnterLock(w, mcumgr_owner, "release", "rel_check")
    /\ UNCHANGED <<registered, mpc, mcb, mret, mcumgr_event_active, event_queue,
                   events_stopped, mpre, resched>>

\* app_event_handler, ble_smp_transfer_event:
\* res = atomic_cas(&mcumgr_event_active, true, false); __ASSERT_NO_MSG(res);
app_event_handler ==
    /\ event_queue > 0
    /\ serial => \A c \in Contexts : pc[c] = "idle"
    /\ event_queue' = event_queue - 1
    /\ mcumgr_event_active' = FALSE
    /\ failed' = IF mcumgr_event_active # TRUE
                 THEN failed \cup {"event_cas"} ELSE failed
    /\ UNCHANGED <<lockvars, pc, op, arg, ret, histvars, steps, acquired,
                   blocker, last_released, serial, registered, mpc, mcb, mret,
                   dfu_timeout, events_stopped, mpre, resched, btvars>>

\* The host stops sending management requests.
host_stops ==
    /\ ~events_stopped
    /\ events_stopped' = TRUE
    /\ UNCHANGED <<corevars, registered, mpc, mcb, mret, dfu_timeout,
                   mcumgr_event_active, event_queue, mpre, resched>>

\* A second context releases on behalf of mcumgr_owner, as dfu_timeout_handler
\* does from the system workqueue: dfu_lock_release(&mcumgr_owner).
LateRelease(c) ==
    \/ dfu_lock_release(c, IF c \in Owners THEN c ELSE mcumgr_owner)
    \/ rel_check(c)
    \/ rel_prev(c)
    \/ rel_clear(c)
    \/ rel_cas(c)
    \/ Return(c)

\* Context c acquires and releases with its own identity.
TryRelease(c) ==
    \/ dfu_lock_try(c, c)
    \/ try_cas(c)
    \/ try_assert(c)
    \/ try_set(c)
    \/ try_notify(c)
    \/ try_call_cb(c)
    \/ cb_return(c)
    \/ LateRelease(c)

\* Another DFU transport competing with MCUmgr for the lock.
Rival == mcumgr_owner + 1

\* MCUmgr and a rival in their own contexts, and the workqueue releasing for
\* mcumgr_owner.
NextDup ==
    \/ \E c \in {mcumgr_owner, Rival} : TryRelease(c)
    \/ LateRelease(Workqueue)

\* Two contexts may release for the same identity at the same time.
SpecDup == Init /\ [][NextDup]_vars

\* The statements of a management callback that has been entered.
McumgrRun(c) ==
    \/ cat_check(c)
    \/ try_cas(c)
    \/ try_assert(c)
    \/ try_set(c)
    \/ try_notify(c)
    \/ try_call_cb(c)
    \/ cb_return(c)
    \/ cat_log(c)
    \/ mgmt_locked(c)
    \/ mgmt_reschedule(c)
    \/ img_cas(c)
    \/ img_submit(c)
    \/ mgmt_return(c)

\* The MCUmgr thread c running the management callbacks.
McumgrThread(c) ==
    \/ mcumgr_img_mgmt_cb(c)
    \/ mcumgr_os_mgmt_reset_cb(c)
    \/ McumgrRun(c)

\* The system workqueue w running the timeout work.
TimeoutWork(w) ==
    \/ dfu_timeout_handler(w)
    \/ rel_check(w)
    \/ rel_prev(w)
    \/ rel_clear(w)
    \/ rel_cas(w)
    \/ Return(w)

\* The MCUmgr module, its timeout work, the event manager and a rival transport.
NextMgmt ==
    \/ module_ready
    \/ McumgrThread(mcumgr_owner)
    \/ TimeoutWork(Workqueue)
    \/ app_event_handler
    \/ host_stops
    \/ TryRelease(Rival)

\* The MCUmgr thread, the workqueue and the rival preempt each other.
SpecMgmt == Init /\ [][NextMgmt]_vars

\* A callback that has been entered runs to its end, and the kernel runs the
\* timeout work once its delay has expired.
SpecMgmtFair ==
    /\ SpecMgmt
    /\ WF_vars(McumgrRun(mcumgr_owner))
    /\ WF_vars(TimeoutWork(Workqueue))

\* Callbacks, work items and the rival's calls run one at a time.
SpecMgmtSeq == InitSeq /\ [][NextMgmt]_vars

TypeOK ==
    /\ dfu_lock \in BOOLEAN
    /\ current_owner \in Owners \cup {NULL}
    /\ previous_owner \in Owners \cup {NULL}
    /\ cb_cnt \in 0..1
    /\ \A c \in Contexts : ret[c] \in {"none", "true", "false", "void"}

(***************************************************************************)
(* Properties                                                              *)
(***************************************************************************)

\* No context is inside a call.
Quiescent == \A c \in Contexts : pc[c] \in {"idle", "done"}

\* Context c has just completed a call of API function f.
Completed(c, f) == pc[c] = "done" /\ op[c] = f

\* The FREE / HELD(owner) state a lock state stands for.
Abs(s) == IF s.lock THEN <<"HELD", s.cur>> ELSE <<"FREE">>

\* C1: mutual exclusion. In every interleaving of the contexts, no two
\* different identities have both obtained true from dfu_lock_try or
\* dfu_lock_owner_check_and_try without having released the lock since.
C1_MutualExclusion ==
    \A a, b \in Owners : acquired[a] /\ acquired[b] => a = b

\* One identity holds the lock, another one has been turned away meanwhile and
\* a third context is in the middle of a call.
C1_Witness ==
    \E a, b \in Owners :
        /\ a # b
        /\ acquired[a]
        /\ Completed(b, "try") /\ ret[b] = "false"
        /\ \E d \in Contexts : pc[d] \notin {"idle", "done"}

\* C2: held-iff-owner. After any sequence of completed calls, dfu_lock is true
\* if and only if current_owner is non-NULL.
C2_HeldIffOwner ==
    Quiescent => (dfu_lock <=> current_owner # NULL)

\* The lock is held again after an earlier owner has released it.
C2_Witness ==
    Quiescent /\ dfu_lock /\ current_owner # NULL /\ previous_owner # NULL

\* C3: refinement of FREE / HELD(owner). A completed call changes the abstract
\* state only FREE -> HELD(X) by a successful try of X (directly or through
\* check_and_try) or HELD(X) -> FREE by release(X); a held lock never passes
\* to another identity without being freed; try from FREE always succeeds.
C3_Refinement ==
    /\ pre.lock /\ dfu_lock /\ pre.cur # NULL /\ current_owner # NULL
           => current_owner = pre.cur
    /\ \A c \in Contexts :
        pc[c] = "done" =>
            /\ Abs(LockState) # Abs(pre) =>
                \/ /\ Abs(pre) = <<"FREE">>
                   /\ Abs(LockState) = <<"HELD", arg[c]>>
                   /\ op[c] \in {"try", "check_and_try"}
                   /\ ret[c] = "true"
                \/ /\ Abs(pre) = <<"HELD", arg[c]>>
                   /\ Abs(LockState) = <<"FREE">>
                   /\ op[c] = "release"
            /\ op[c] = "try" /\ Abs(pre) = <<"FREE">> =>
                ret[c] = "true" /\ Abs(LockState) = <<"HELD", arg[c]>>

\* An owner frees the lock that the call before had taken from FREE.
C3_Witness ==
    \E c \in Contexts :
        /\ Completed(c, "release")
        /\ Abs(pre) = <<"HELD", arg[c]>>
        /\ Abs(LockState) = <<"FREE">>
        /\ prev_call.op = "try" /\ prev_call.ret = "true"

\* C4: contention rejection. dfu_lock_try(B) while another identity A holds
\* the lock returns false, leaves dfu_lock, current_owner and previous_owner
\* unchanged and invokes no owner_changed callback.
C4_ContentionRejection ==
    \A c \in Contexts :
        Completed(c, "try") /\ pre.lock /\ pre.cur # NULL /\ pre.cur # arg[c] =>
            /\ ret[c] = "false"
            /\ LockState = pre
            /\ cb_cnt = 0

\* B is turned away by A although B held the lock before and has a callback.
C4_Witness ==
    \E c \in Contexts :
        /\ Completed(c, "try")
        /\ pre.lock /\ pre.cur # NULL /\ pre.cur # arg[c]
        /\ pre.prev # NULL /\ pre.prev # pre.cur /\ owner_changed(pre.prev)
        /\ ret[c] = "false"

\* C5: non-owner release is a no-op. dfu_lock_release(Y) by an identity that is
\* not the current owner (lock held by another identity, or free) changes none
\* of the three fields, invokes no callback and does not reach the assertion.
C5_NonOwnerReleaseNoOp ==
    \A c \in Contexts :
        Completed(c, "release") /\ pre.cur # arg[c] =>
            /\ LockState = pre
            /\ cb_cnt = 0
            /\ ~rel_assert

\* Y releases while another identity holds the lock.
C5_Witness ==
    \E c \in Contexts :
        /\ Completed(c, "release")
        /\ pre.lock /\ pre.cur # NULL /\ pre.cur # arg[c]
        /\ current_owner = pre.cur

\* C6: owner release. After dfu_lock_release(X) by the holder X,
\* previous_owner = X, current_owner = NULL, dfu_lock = false and the assertion
\* on the compare-and-swap has not failed; the dfu_lock_try that follows
\* succeeds for any identity.
C6_OwnerRelease ==
    \A c \in Contexts :
        /\ Completed(c, "release") /\ pre.cur = arg[c] =>
            /\ previous_owner = arg[c]
            /\ current_owner = NULL
            /\ dfu_lock = FALSE
            /\ rel_assert
            /\ "release_cas" \notin failed
        /\ Completed(c, "try") /\ prev_call.op = "release" /\ prev_call.owner =>
            ret[c] = "true"

\* A different identity takes the lock right after the owner released it.
C6_Witness ==
    \E c \in Contexts :
        /\ Completed(c, "try")
        /\ prev_call.op = "release" /\ prev_call.owner /\ prev_call.arg # arg[c]
        /\ ret[c] = "true"
        /\ previous_owner = prev_call.arg

\* The successful acquisition by context c notifies the previous owner.
Notifies(c) ==
    /\ pre.prev # NULL
    /\ owner_changed(pre.prev)
    /\ pre.prev # arg[c]

\* C7: preemption notification. A successful dfu_lock_try(N) invokes exactly
\* one callback, previous_owner->owner_changed(N), iff previous_owner is
\* non-NULL, has a callback and differs from N; otherwise none.
C7_PreemptionNotification ==
    \A c \in Contexts :
        /\ pc[c] = "done" /\ ret[c] = "true"
        /\ \/ op[c] = "try"
           \/ op[c] = "check_and_try" /\ pre.cur # arg[c]
        => IF Notifies(c)
           THEN cb_cnt = 1 /\ cb_from = pre.prev /\ cb_arg = arg[c]
           ELSE cb_cnt = 0

\* A acquired and released, then B acquires: A's callback ran once with B.
C7_Witness ==
    \E c \in Contexts :
        /\ Completed(c, "try") /\ ret[c] = "true"
        /\ prev_call.op = "release" /\ prev_call.owner /\ prev_call.arg # arg[c]
        /\ cb_cnt = 1 /\ cb_from = prev_call.arg /\ cb_arg = arg[c]

\* C8: notification ordering. While the owner_changed callback invoked by
\* dfu_lock_try(N) runs, current_owner is already N (dfu_lock_owner_check(N)
\* is true), dfu_lock is true, and the call has not returned to its caller.
C8_NotificationOrdering ==
    \A c \in Contexts :
        pc[c] = "in_cb" =>
            /\ current_owner = arg[c]
            /\ dfu_lock = TRUE
            /\ ret[c] = "none"

\* The callback runs while another context is inside a call of its own.
C8_Witness ==
    \E c, d \in Contexts :
        /\ c # d
        /\ pc[c] = "in_cb"
        /\ pc[d] \notin {"idle", "done"}

\* C9: idempotent re-entry. dfu_lock_owner_check_and_try(X) by the holder X
\* returns true, invokes no callback and changes none of the three fields.
C9_IdempotentReentry ==
    \A c \in Contexts :
        Completed(c, "check_and_try") /\ pre.cur = arg[c] =>
            /\ ret[c] = "true"
            /\ cb_cnt = 0
            /\ LockState = pre

\* The second of two consecutive calls by the holder, with a different
\* previous owner that has a callback.
C9_Witness ==
    \E c \in Contexts :
        /\ Completed(c, "check_and_try") /\ pre.cur = arg[c]
        /\ prev_call.op = "check_and_try" /\ prev_call.arg = arg[c]
        /\ prev_call.owner
        /\ pre.prev # NULL /\ pre.prev # arg[c] /\ owner_changed(pre.prev)
        /\ ret[c] = "true"

\* C10: check accuracy and purity. dfu_lock_owner_check(X) returns true exactly
\* when the lock is held and X is the identity whose acquisition last
\* succeeded and has not been released; it changes none of the three fields
\* and invokes no callback.
C10_CheckAccuracy ==
    \A c \in Contexts :
        Completed(c, "check") =>
            /\ ret[c] = "true" <=> (pre.lock /\ acquired[arg[c]])
            /\ \A b \in Owners \ {arg[c]} : ret[c] = "true" => ~acquired[b]
            /\ ~pre.lock => ret[c] = "false"
            /\ LockState = pre
            /\ cb_cnt = 0

\* check(B) is false while A holds the lock that B held before.
C10_Witness ==
    \E c \in Contexts :
        /\ Completed(c, "check")
        /\ ret[c] = "false"
        /\ pre.lock /\ pre.cur # arg[c] /\ pre.prev = arg[c]
        /\ acquired[pre.cur]

\* C11: duplicate release under a race. With two contexts releasing for the
\* same identity, interleaved with other identities' calls, no assertion
\* fails and the late release never clears or frees the acquisition another
\* identity has made in between.
C11_DuplicateReleaseTolerated ==
    /\ failed = {}
    /\ \A b \in Owners \ {mcumgr_owner} :
           acquired[b] /\ pc[b] \in {"idle", "done"} =>
               current_owner = b /\ dfu_lock = TRUE

\* C12: a failing dfu_lock_owner_check_and_try(Y) has a blocker to report.
\* When the failure path reads current_owner->name, current_owner is non-NULL
\* and different from Y, whatever another identity's context does meanwhile.
C12_BlockerReported ==
    \A c \in Owners :
        Completed(c, "check_and_try") /\ ret[c] = "false" =>
            blocker[c] # NULL /\ blocker[c] # arg[c]

\* C13: non-blocking. A context inside a call can always take its next step,
\* whatever the other contexts are doing; no statement is executed twice in
\* one call; dfu_lock_try on a held lock returns false at its first statement;
\* and current_owner is only ever an identity whose own compare-and-swap
\* succeeded, never a caller that was turned away and is granted it later.
C13_NonBlocking ==
    /\ \A c \in Owners :
           /\ pc[c] \in Labels => ENABLED Step(c)
           /\ steps[c] <= Cardinality(Labels)
           /\ Completed(c, "try") /\ ret[c] = "false" => steps[c] = 2
    /\ \A o \in Owners :
           current_owner = o =>
               acquired[o] \/ pc[o] \in {"try_notify", "try_call_cb", "in_cb"}

\* A caller was turned away, the holder has released since, and the lock is
\* free rather than handed to the rejected caller.
C13_Witness ==
    \E b \in Owners :
        /\ Completed(b, "try") /\ ret[b] = "false"
        /\ last_released \notin {NULL, b}
        /\ dfu_lock = FALSE /\ current_owner = NULL

\* C16: previous_owner is changed only by a release performed by the current
\* owner. Every other completed call leaves it as it was at entry, and between
\* calls it is the identity whose release freed the lock last (NULL before the
\* first such release).
C16_PreviousOwnerFrame ==
    /\ \A c \in Contexts :
           pc[c] = "done" /\ ~(op[c] = "release" /\ pre.cur = arg[c]) =>
               previous_owner = pre.prev
    /\ Quiescent => previous_owner = last_released

\* An identity has re-acquired the lock it released last, so previous_owner
\* equals current_owner.
C16_Witness ==
    \E c \in Contexts :
        /\ Completed(c, "try") /\ ret[c] = "true"
        /\ previous_owner = arg[c] /\ current_owner = arg[c]
        /\ last_released = arg[c]

\* C18: the assertions are valid when every identity is driven from a single
\* context. After a successful free->held compare-and-swap current_owner is
\* NULL at the assertion, and a release that has passed its owner check finds
\* dfu_lock true at its compare-and-swap; no assertion has failed.
C18_AssertionsValid ==
    /\ failed = {}
    /\ \A c \in Owners :
           /\ pc[c] = "try_assert" => current_owner = NULL
           /\ pc[c] = "rel_cas" => dfu_lock = TRUE

\* An acquisition is at its assertion after an earlier release, while another
\* identity's check_and_try is failing.
C18_Witness ==
    \E c, d \in Owners :
        /\ c # d
        /\ pc[c] = "try_assert"
        /\ pc[d] = "cat_log"
        /\ last_released # NULL

\* C14: timeout release. Every accepted management event schedules the
\* dfu_timeout work, and once the host sends no further requests the timeout
\* handler releases the lock for mcumgr_owner, which is never again its owner.
C14_TimeoutRelease ==
    /\ [][mpc = "resched" /\ mpc' # "resched" => dfu_timeout' = "scheduled"]_vars
    /\ [](mpc = "ret" /\ mret = "EOK" => resched = 1)
    /\ events_stopped ~> [](current_owner # mcumgr_owner /\ dfu_timeout = "idle")

\* After the host has stopped, the timeout handler has released the lock and the
\* rival transport has acquired it.
C14_Witness ==
    /\ events_stopped
    /\ last_released = mcumgr_owner
    /\ acquired[Rival]
    /\ current_owner = Rival

\* C15: the management callbacks reject on contention without side effects.
\* With another identity holding the lock they return MGMT_ERR_EACCESSDENIED,
\* do not reschedule dfu_timeout, submit no event and change neither
\* mcumgr_event_active nor the lock; MGMT_ERR_EOK is returned only when
\* dfu_lock_owner_check_and_try returned true.
C15_RejectWithoutSideEffects ==
    mpc = "ret" =>
        /\ mpre.lock.cur \notin {NULL, mcumgr_owner} =>
               /\ mret = "EACCESSDENIED"
               /\ resched = 0
               /\ MgmtState = mpre
        /\ mret = "EOK" <=> ret[mcumgr_owner] = "true"

\* The image callback is rejected while the rival holds the lock and an
\* earlier transfer event is still pending.
C15_Witness ==
    /\ mpc = "ret" /\ mcb = "img"
    /\ mret = "EACCESSDENIED"
    /\ mpre.lock.cur = Rival
    /\ mpre.active /\ mpre.queue = 1

\* C17: no gap between the ownership check of a management callback and its
\* return. Whenever a callback returns MGMT_ERR_EOK, mcumgr_owner is the
\* current owner of the lock.
C17_OwnerAtReturn ==
    mpc = "ret" /\ mret = "EOK" => current_owner = mcumgr_owner

\* C19: at most one transfer event in flight. mcumgr_event_active is true
\* exactly while one submitted ble_smp_transfer_event awaits delivery, an event
\* is submitted only when none is pending, and the assertion on delivery
\* never fails.
C19_SingleEventInFlight ==
    /\ event_queue \in {0, 1}
    /\ mpc # "img_submit" => (mcumgr_event_active <=> event_queue = 1)
    /\ mpc = "img_submit" => event_queue = 0
    /\ "event_cas" \notin failed

\* An accepted image event reaches the compare-and-swap while the transfer
\* event of an earlier one is still pending.
C19_Witness ==
    /\ mpc = "img_cas" /\ mcb = "img"
    /\ mcumgr_event_active /\ event_queue = 1

(***************************************************************************)
(* The Bluetooth multiple use case sample (main.c): two advertising sets,  *)
(* each with a connection counter and a work item that restarts it.        *)
(***************************************************************************)

\* The DFU lock and the MCUmgr module, which the sample does not touch.
dfuvars == <<lockvars, pc, op, arg, ret, histvars, steps, ghostvars, serial,
             mgmtvars>>

\* Thread t calls bt_adv_set_use_case_a_start / _b_start for use case u from
\* the function who.
AdvSetStart(t, u, who) ==
    /\ bt_pc' = [bt_pc EXCEPT ![t] = "check"]
    /\ bt_uc' = [bt_uc EXCEPT ![t] = u]
    /\ bt_caller' = [bt_caller EXCEPT ![t] = who]

\* bt_adv_set_use_case_x_start returns r to its caller on thread t.
\* init_work_handle goes on to use case B after a successful start of A, and
\* returns after the first error.
AdvSetReturn(t, r) ==
    IF bt_caller[t] = "init" /\ bt_init = "start_a" /\ r = "ok"
    THEN /\ bt_init' = "start_b"
         /\ AdvSetStart(t, BT_ID_USE_CASE_B, "init")
    ELSE /\ bt_init' = IF bt_caller[t] # "init" THEN bt_init
                       ELSE IF r = "ok" THEN "done" ELSE "failed"
         /\ bt_pc' = [bt_pc EXCEPT ![t] = "idle"]
         /\ bt_caller' = [bt_caller EXCEPT ![t] = "none"]
         /\ UNCHANGED bt_uc

\* init_work_handle on the system workqueue: after the setup it starts the
\* advertising of use case A, then of use case B.
init_work_handle ==
    /\ bt_init = "boot"
    /\ bt_pc[SysWorkq] = "idle"
    /\ bt_init' = "start_a"
    /\ AdvSetStart(SysWorkq, BT_ID_USE_CASE_A, "init")
    /\ UNCHANGED <<dfuvars, conn_cnt, adv_active, restart_work, links,
                   conn_events, started_cnt, started_by, last_start>>

\* Mutant of adv_check: the connection limit is not looked at.
adv_check_unguarded(t) ==
    /\ bt_pc[t] = "check"
    /\ bt_pc' = [bt_pc EXCEPT ![t] = "start"]
    /\ UNCHANGED <<bt_uc, bt_caller, bt_init>>
    /\ UNCHANGED <<dfuvars, conn_cnt, adv_active, restart_work, links,
                   conn_events, started_cnt, started_by, last_start>>

\* if (conn_cnt_use_case_x >= BT_MAX_CONN_USE_CASE_X) return 0;
adv_check(t) ==
    /\ bt_pc[t] = "check"
    /\ IF conn_cnt[bt_uc[t]] >= BT_MAX_CONN(bt_uc[t])
       THEN AdvSetReturn(t, "ok")
       ELSE /\ bt_pc' = [bt_pc EXCEPT ![t] = "start"]
            /\ UNCHANGED <<bt_uc, bt_caller, bt_init>>
    /\ UNCHANGED <<dfuvars, conn_cnt, adv_active, restart_work, links,
                   conn_events, started_cnt, started_by, last_start>>

\* err = bt_le_ext_adv_start(adv_set_use_case_x, ...); if (err) return err;
\* return 0; the stack starts the set or reports the error r.
adv_start(t, r) ==
    /\ bt_pc[t] = "start"
    /\ started_cnt' = [started_cnt EXCEPT ![bt_uc[t]] = conn_cnt[bt_uc[t]]]
    /\ started_by' = [started_by EXCEPT ![bt_uc[t]] = bt_caller[t]]
    /\ last_start' = [last_start EXCEPT ![bt_uc[t]] = r]
    /\ adv_active' = [adv_active EXCEPT ![bt_uc[t]] = (r = "ok") \/ adv_active[bt_uc[t]]]
    /\ AdvSetReturn(t, r)
    /\ UNCHANGED <<dfuvars, conn_cnt, restart_work, links, conn_events>>

\* The stack: a central connects to the advertising set of use case u, which
\* stops advertising; the connected callback is due.
le_connection_complete(u) ==
    /\ adv_active[u]
    /\ Len(conn_events) < MaxPending
    /\ adv_active' = [adv_active EXCEPT ![u] = FALSE]
    /\ links' = [links EXCEPT ![u] = links[u] + 1]
    /\ conn_events' = Append(conn_events, [kind |-> "connected", id |-> u])
    /\ UNCHANGED <<dfuvars, conn_cnt, restart_work, bt_pc, bt_uc, bt_caller,
                   started_cnt, started_by, last_start, bt_init>>

\* The stack: a connection attempt on the advertising set of use case u fails;
\* the connected callback is due with a non-zero conn_err. The set may or may
\* not keep advertising.
le_connection_failed(u, stops) ==
    /\ adv_active[u]
    /\ Len(conn_events) < MaxPending
    /\ adv_active' = [adv_active EXCEPT ![u] = ~stops]
    /\ conn_events' = Append(conn_events, [kind |-> "connected_err", id |-> u])
    /\ UNCHANGED <<dfuvars, conn_cnt, restart_work, links, bt_pc, bt_uc,
                   bt_caller, started_cnt, started_by, last_start, bt_init>>

\* The stack: a connection of use case u ends; the disconnected callback is due.
le_disconnection_complete(u) ==
    /\ links[u] > 0
    /\ Len(conn_events) < MaxPending
    /\ links' = [links EXCEPT ![u] = links[u] - 1]
    /\ conn_events' = Append(conn_events, [kind |-> "disconnected", id |-> u])
    /\ UNCHANGED <<dfuvars, conn_cnt, adv_active, restart_work, bt_pc, bt_uc,
                   bt_caller, started_cnt, started_by, last_start, bt_init>>

\* static void connected(struct bt_conn *conn, uint8_t conn_err):
\* if (conn_err) return; conn_cnt_use_case_x++; bt_adv_set_use_case_x_start();
connected ==
    /\ bt_pc[BtRx] = "idle"
    /\ conn_events # <<>>
    /\ Head(conn_events).kind \in {"connected", "connected_err"}
    /\ conn_events' = Tail(conn_events)
    /\ LET u == Head(conn_events).id IN
       IF Head(conn_events).kind = "connected_err"
       THEN UNCHANGED <<conn_cnt, bt_pc, bt_uc, bt_caller>>
       ELSE /\ conn_cnt' = [conn_cnt EXCEPT ![u] = (conn_cnt[u] + 1) % 256]
            /\ AdvSetStart(BtRx, u, "connected")
    /\ UNCHANGED <<dfuvars, adv_active, restart_work, links, started_cnt,
                   started_by, last_start, bt_init>>

\* static void disconnected(struct bt_conn *conn, uint8_t reason):
\* conn_cnt_use_case_x--; k_work_submit(&adv_use_case_x_restart_work);
disconnected ==
    /\ bt_pc[BtRx] = "idle"
    /\ conn_events # <<>>
    /\ Head(conn_events).kind = "disconnected"
    /\ conn_events' = Tail(conn_events)
    /\ LET u == Head(conn_events).id IN
       /\ conn_cnt' = [conn_cnt EXCEPT ![u] = (conn_cnt[u] - 1) % 256]
       /\ restart_work' = [restart_work EXCEPT ![u] = TRUE]
       /\ last_start' = [last_start EXCEPT ![u] = "none"]
    /\ UNCHANGED <<dfuvars, adv_active, links, bt_pc, bt_uc, bt_caller,
                   started_cnt, started_by, bt_init>>

\* adv_use_case_a_restart_work_handle / _b_: the system workqueue takes the
\* pending work item of use case u and calls bt_adv_set_use_case_x_start().
adv_restart_work_handle(u) ==
    /\ restart_work[u]
    /\ bt_pc[SysWorkq] = "idle"
    /\ restart_work' = [restart_work EXCEPT ![u] = FALSE]
    /\ AdvSetStart(SysWorkq, u, "restart")
    /\ UNCHANGED <<dfuvars, conn_cnt, adv_active, links, conn_events,
                   started_cnt, started_by, last_start, bt_init>>

\* The items the system workqueue runs.
SysWorkqRun ==
    \/ init_work_handle
    \/ \E u \in UseCases : adv_restart_work_handle(u)
    \/ adv_check(SysWorkq)
    \/ \E r \in {"ok", "err"} : adv_start(SysWorkq, r)

NextBt ==
    \/ init_work_handle
    \/ \E u \in UseCases : le_connection_complete(u)
    \/ \E u \in UseCases, stops \in BOOLEAN : le_connection_failed(u, stops)
    \/ \E u \in UseCases : le_disconnection_complete(u)
    \/ connected
    \/ disconnected
    \/ \E u \in UseCases : adv_restart_work_handle(u)
    \/ \E t \in BtThreads : adv_check(t)
    \/ \E t \in BtThreads, r \in {"ok", "err"} : adv_start(t, r)

\* The system workqueue finishes the item it runs and, taking its items in the
\* order of their submission, runs every item submitted to it.
SpecBt ==
    /\ Init
    /\ [][NextBt]_vars
    /\ WF_vars(SysWorkqRun)
    /\ \A u \in UseCases : SF_vars(adv_restart_work_handle(u))

\* C20: per-use-case connection limit. bt_le_ext_adv_start is never called for
\* a use case whose connection counter has reached its limit, the counters
\* never exceed their limits, and every disconnect submits the restart work of
\* its use case.
C20_Limits ==
    /\ [](\A u \in UseCases : started_cnt[u] < BT_MAX_CONN(u))
    /\ [](\A u \in UseCases : conn_cnt[u] <= BT_MAX_CONN(u))
    /\ [][\A u \in UseCases :
            conn_cnt'[u] = (conn_cnt[u] - 1) % 256 => restart_work'[u]]_vars

====
